---- MODULE Spec2Model ----
(***************************************************************************)
(* The graph execution engine of src/main.py (class WorkflowEngine): the   *)
(* node dictionary and edge map built by __init__, condition evaluation,   *)
(* next-node selection and the interpreter loop of execute, split at its   *)
(* suspension points (the awaited tool call and the awaited send_json of   *)
(* the websocket), with register_tool, the code-review tools of            *)
(* src/code_review_workflow.py and the graph of src/setup_workflow.py.     *)
(*                                                                         *)
(* Python values are tagged records: PyInt(n), PyStr(s), PyDict(d), ...    *)
(* A Python dict is a function whose DOMAIN is its set of keys.            *)
(* Timestamps are the token Now.  Node params are {} throughout, as in     *)
(* setup_workflow.py.                                                      *)
(***************************************************************************)
EXTENDS Integers, Sequences, FiniteSets, TLC

VARIABLES
    tool_registry,  \* main.py:14   tool name -> registered callable
    req_nodes,      \* per run: the List[NodeConfig] handed to __init__
    req_edges,      \* per run: the List[EdgeConfig] handed to __init__
    initial_state,  \* per run: the caller's initial_state mapping
    nodes,          \* per run: self.nodes, an insertion-ordered dict
    edges,          \* per run: self.edges, from_node -> list of (to, cond)
    websocket,      \* per run: the websocket handed to execute, or None
    execution_log,  \* per run: self.execution_log
    state,          \* per run: the local `state` of execute
    current_node,   \* per run: the local `current_node` of execute
    log_entry,      \* per run: the local `log_entry`, live across the awaits
    tool_func,      \* per run: the local `tool_func` while it is awaited
    pc,             \* per run: where the coroutine stands
    raised,         \* per run: the exception that left execute, or None
    sink_offered,   \* per run: the entries handed to websocket.send_json
    sink_status     \* per run: how the last send_json ended

\* What a run is constructed and called with.
request_vars == <<req_nodes, req_edges, initial_state, nodes, edges, websocket>>

\* The far end of the websocket.
sink_vars == <<sink_offered, sink_status>>

vars == <<tool_registry, request_vars, execution_log, state, current_node,
          log_entry, tool_func, pc, raised, sink_vars>>
----------------------------------------------------------------------------
(* Bounds of the model *)

\* Longest edge list over all of EdgeConfig.
MaxEdges == 2
\* Longest edge list whose edges all leave the start node.
MaxFanOut == 3
\* Visits after which a run is no longer followed.
MaxVisits == 52

(* Program constant: 'max_iterations': 50 *)
MaxIterations == 50

----------------------------------------------------------------------------
(* Python values *)

None == "<None>"
Now == "<now>"

PyInt(n) == [int |-> n]
PyStr(s) == [str |-> s]
PyDict(d) == [dict |-> d]

PyList(s) == [list |-> s]
\* A float, kept exact as numerator over denominator.
PyFrac(n, d) == [frac |-> <<n, d>>]
\* A source text, kept as what the tools read off it: its length, its count
\* of 'global ', whether it has a bare except clause, and the function
\* definitions found in it.
PySrc(c) == [src |-> c]

IsInt(v) == DOMAIN v = {"int"}
IsStr(v) == DOMAIN v = {"str"}
IsFrac(v) == DOMAIN v = {"frac"}
IsSrc(v) == DOMAIN v = {"src"}

EmptyDict == [k \in {} |-> None]

\* d[k] = v
SetItem(d, k, v) == [x \in DOMAIN d \cup {k} |-> IF x = k THEN v ELSE d[x]]

\* d.get(k, default)
Get(d, k, default) == IF k \in DOMAIN d THEN d[k] ELSE default

\* Faulty variant: a key that is already bound keeps its value.
UpdateKeepsBound(d, e) ==
    [x \in DOMAIN d \cup DOMAIN e |-> IF x \in DOMAIN d THEN d[x] ELSE e[x]]

\* d.update(e)
Update(d, e) == [x \in DOMAIN d \cup DOMAIN e |-> IF x \in DOMAIN e THEN e[x] ELSE d[x]]

\* The user/tool fields of a state: everything but the engine's metadata.
UserFields(st) == [k \in DOMAIN st \ {"_meta"} |-> st[k]]

Last(s) == s[Len(s)]

----------------------------------------------------------------------------
(* Inputs: runs, node and edge definitions, conditions, initial states *)

Runs == {1, 2}

Names == {"a", "b"}

ScoreLt70 == "state['score'] < 70"
Malformed == "state["
\* The condition of the self-loop of src/setup_workflow.py.
ImproveAgain ==
    "state.get('quality_score', 100) < 70 and state['_meta']['iterations'] < 3"

Conds == {None, ScoreLt70, Malformed}

RegisteredTools == {"add30", "reset_meta"}
ToolRefs == RegisteredTools \cup {"nope"}

NodeConfig == [name : Names, tool : ToolRefs]
EdgeConfig == [from_node : Names, to_node : Names, condition : Conds]

SeqsUpTo(S, n) == UNION {[1..k -> S] : k \in 0..n}

InitialStates ==
    { EmptyDict,
      [k \in {"score"} |-> PyInt(50)],
      [k \in {"score"} |-> PyStr("high")] }

\* Every list of at most one node per name of Names (names may repeat).
NodeLists == SeqsUpTo(NodeConfig, Cardinality(Names))

\* The empty edge list and every single edge.
OneEdge == {<<>>} \cup {<<e>> : e \in EdgeConfig}

\* Every edge list of up to MaxEdges edges, and every list of up to
\* MaxFanOut edges that all leave node "a".
EdgeLists ==
    SeqsUpTo(EdgeConfig, MaxEdges)
    \cup SeqsUpTo({e \in EdgeConfig : e.from_node = "a"}, MaxFanOut)

TwoNodes == <<[name |-> "a", tool |-> "nope"], [name |-> "b", tool |-> "add30"]>>

\* The graph definitions and initial states a run is started on: every node
\* list with at most one edge, and the two-node graph with every edge list.
GraphRunRequests ==
    {[nodes |-> ns, edges |-> es, initial_state |-> s0] :
        ns \in NodeLists, es \in OneEdge, s0 \in InitialStates}
    \cup {[nodes |-> TwoNodes, edges |-> es, initial_state |-> s0] :
        es \in EdgeLists, s0 \in InitialStates}

----------------------------------------------------------------------------
(* WorkflowEngine.__init__ *)

\* Keys of {node.name: node for node in nodes}, in insertion order: a
\* repeated name keeps the position of its first occurrence.
RECURSIVE DictKeys(_)
DictKeys(ns) ==
    IF ns = <<>> THEN <<>>
    ELSE LET front == DictKeys(SubSeq(ns, 1, Len(ns) - 1))
             n == Last(ns).name
         IN  IF \E i \in 1..Len(front) : front[i] = n THEN front
             ELSE Append(front, n)

\* Values of that dict: a repeated name is bound to the last node carrying it.
DictValues(ns) ==
    [n \in {ns[i].name : i \in 1..Len(ns)} |->
        ns[CHOOSE i \in 1..Len(ns) :
              /\ ns[i].name = n
              /\ \A j \in (i+1)..Len(ns) : ns[j].name # n]]

NodeDict(ns) == [keys |-> DictKeys(ns), val |-> DictValues(ns)]

\* Faulty variant: the edge is put in front of its group instead of appended.
BuildEdgeMapPrepend(edge_map, edge) ==
    LET m == IF edge.from_node \notin DOMAIN edge_map
             THEN SetItem(edge_map, edge.from_node, <<>>)
             ELSE edge_map
    IN  [m EXCEPT ![edge.from_node] = <<<<edge.to_node, edge.condition>>>> \o @]

\* _build_edge_map: group the edges by from_node, appending in list order.
BuildEdgeMapAppend(edge_map, edge) ==
    LET m == IF edge.from_node \notin DOMAIN edge_map
             THEN SetItem(edge_map, edge.from_node, <<>>)
             ELSE edge_map
    IN  [m EXCEPT ![edge.from_node] = Append(@, <<edge.to_node, edge.condition>>)]

RECURSIVE BuildEdgeMap(_)
BuildEdgeMap(es) ==
    IF es = <<>> THEN EmptyDict
    ELSE BuildEdgeMapAppend(BuildEdgeMap(SubSeq(es, 1, Len(es) - 1)), Last(es))

----------------------------------------------------------------------------
(* _evaluate_condition and _get_next_node *)

Value(v) == [raised |-> FALSE, value |-> v]
Raise(msg) == [raised |-> TRUE, error |-> msg]

\* number < 70
Lt70(v) == IF IsInt(v) THEN v.int < 70 ELSE v.frac[1] < 70 * v.frac[2]

\* eval(condition, {"state": state}) for the conditions of Conds and
\* ImproveAgain.
Eval(condition, st) ==
    CASE condition = ScoreLt70 ->
            IF "score" \notin DOMAIN st THEN Raise("KeyError")
            ELSE IF ~IsInt(st["score"]) THEN Raise("TypeError")
            ELSE Value(st["score"].int < 70)
      [] condition = ImproveAgain ->
            LET quality_score == Get(st, "quality_score", PyInt(100))
            IN  IF ~(IsInt(quality_score) \/ IsFrac(quality_score))
                THEN Raise("TypeError")
                ELSE IF ~Lt70(quality_score) THEN Value(FALSE)
                ELSE Value(st["_meta"].dict.iterations < 3)
      [] OTHER -> Raise("SyntaxError")

\* Faulty variant: a condition whose evaluation fails counts as true.
EvaluateConditionFailOpen(condition, st) ==
    IF condition = None \/ condition = "" THEN TRUE
    ELSE LET r == Eval(condition, st)
         IN  IF r.raised THEN TRUE ELSE r.value

EvaluateCondition(condition, st) ==
    IF condition = None \/ condition = "" THEN TRUE
    ELSE LET r == Eval(condition, st)
         IN  IF r.raised THEN FALSE ELSE r.value

RECURSIVE FirstMatch(_, _)
FirstMatch(out, st) ==
    IF out = <<>> THEN None
    ELSE IF EvaluateCondition(Head(out)[2], st) THEN Head(out)[1]
    ELSE FirstMatch(Tail(out), st)

\* Faulty variant: a node without outgoing edge is selected again.
GetNextNodeStays(edge_map, cur, st) ==
    IF cur \notin DOMAIN edge_map THEN cur
    ELSE FirstMatch(edge_map[cur], st)

GetNextNode(edge_map, cur, st) ==
    IF cur \notin DOMAIN edge_map THEN None
    ELSE FirstMatch(edge_map[cur], st)

----------------------------------------------------------------------------
(* The tools of src/code_review_workflow.py *)

RECURSIVE Sum(_)
Sum(s) == IF s = <<>> THEN 0 ELSE Head(s) + Sum(Tail(s))

extract_functions(st) ==
    LET code == Get(st, "code", PyStr(""))
        functions == IF IsSrc(code) THEN code.src.functions ELSE <<>>
    IN  IF ~(IsSrc(code) \/ IsStr(code))
        THEN Raise("'int' object has no attribute 'split'")
        ELSE Value([k \in {"functions", "function_count"} |->
                      IF k = "functions" THEN PyList(functions)
                      ELSE PyInt(Len(functions))])

check_complexity(st) ==
    LET functions == Get(st, "functions", PyList(<<>>)).list
        score(func) == func.args_count * 2 + func.body_length
        complexity_scores ==
            [i \in 1..Len(functions) |->
                [function |-> functions[i].name,
                 complexity |-> score(functions[i]),
                 level |-> IF score(functions[i]) > 20 THEN "high"
                           ELSE IF score(functions[i]) > 10 THEN "medium"
                           ELSE "low"]]
        total == Sum([i \in 1..Len(functions) |-> score(functions[i])])
    IN  Value([k \in {"complexity_scores", "avg_complexity"} |->
                 IF k = "complexity_scores" THEN PyList(complexity_scores)
                 ELSE IF functions = <<>> THEN PyInt(0)
                 ELSE PyFrac(total, Len(functions))])

detect_issues(st) ==
    LET code == Get(st, "code", PyStr(""))
        functions == Get(st, "functions", PyList(<<>>)).list
        TooManyArgs(func) == func.args_count > 5
        issues ==
            (IF IsSrc(code) /\ code.src.length > 5000
             THEN <<[type |-> "length", subject |-> None]>> ELSE <<>>)
            \o (IF IsSrc(code) /\ code.src.globals > 2
                THEN <<[type |-> "globals", subject |-> None]>> ELSE <<>>)
            \o (IF IsSrc(code) /\ code.src.bare_except
                THEN <<[type |-> "exception", subject |-> None]>> ELSE <<>>)
            \o [i \in 1..Len(SelectSeq(functions, TooManyArgs)) |->
                   [type |-> "parameters",
                    subject |-> SelectSeq(functions, TooManyArgs)[i].name]]
    IN  IF ~(IsSrc(code) \/ IsStr(code))
        THEN Raise("object of type 'int' has no len()")
        ELSE Value([k \in {"issues", "issue_count"} |->
                      IF k = "issues" THEN PyList(issues)
                      ELSE PyInt(Len(issues))])

\* max(0, min(100, 100 - len(issues) * 10 - avg_complexity / 2))
QualityScore(issue_count, avg) ==
    LET den == IF IsFrac(avg) THEN 2 * avg.frac[2] ELSE 2
        num == IF IsFrac(avg)
               THEN (100 - issue_count * 10) * den - avg.frac[1]
               ELSE (100 - issue_count * 10) * den - avg.int
    IN  IF num >= 100 * den THEN PyInt(100)
        ELSE IF num <= 0 THEN PyInt(0)
        ELSE PyFrac(num, den)

suggest_improvements(st) ==
    LET issues == Get(st, "issues", PyList(<<>>)).list
        complexity_scores == Get(st, "complexity_scores", PyList(<<>>)).list
        High(score) == score.level = "high"
        suggestions ==
            [i \in 1..Len(issues) |-> <<issues[i].type, issues[i].subject>>]
            \o [i \in 1..Len(SelectSeq(complexity_scores, High)) |->
                   <<"simplify", SelectSeq(complexity_scores, High)[i].function>>]
    IN  Value([k \in {"suggestions", "quality_score", "improvement_count"} |->
                 CASE k = "suggestions" -> PyList(suggestions)
                   [] k = "quality_score" ->
                        QualityScore(Len(issues), Get(st, "avg_complexity", PyInt(0)))
                   [] OTHER -> PyInt(Len(suggestions))])

ReviewTools ==
    {"extract_functions", "check_complexity", "detect_issues", "suggest_improvements"}

----------------------------------------------------------------------------
(* The registered tools: tool_func(state, **params) *)

\* Tools that write their own mark under the key 'step'.
StepTools == {"step_A", "step_B", "step_C"}
StepMark == [t \in StepTools |->
                CASE t = "step_A" -> "A" [] t = "step_B" -> "B" [] OTHER -> "C"]

\* Every callable that is registered at some time.
Callables == RegisteredTools \cup StepTools \cup ReviewTools

\* What the callable `tool` returns or raises on state st.
\* add30 returns {'score': state['score'] + 30} (KeyError or TypeError when
\* score is missing or no number); reset_meta returns a mapping whose only
\* key is the engine's reserved '_meta'.
ToolCall(tool, st) ==
    CASE tool = "add30" ->
            IF "score" \notin DOMAIN st THEN Raise("'score'")
            ELSE IF ~IsInt(st["score"]) THEN Raise("can only concatenate str")
            ELSE Value([k \in {"score"} |-> PyInt(st["score"].int + 30)])
      [] tool = "reset_meta" ->
            Value([k \in {"_meta"} |->
                     PyDict([start_time |-> "forged", iterations |-> 0,
                           max_iterations |-> MaxIterations])])
      [] tool \in StepTools -> Value([k \in {"step"} |-> PyStr(StepMark[tool])])
      [] tool = "extract_functions" -> extract_functions(st)
      [] tool = "check_complexity" -> check_complexity(st)
      [] tool = "detect_issues" -> detect_issues(st)
      [] tool = "suggest_improvements" -> suggest_improvements(st)
      [] OTHER -> Raise("unknown tool")

----------------------------------------------------------------------------
(* Scenario graphs *)

\* Nodes A, B, C chained by unconditional edges, each with a tool that
\* writes its mark.
ChainEdges ==
    <<[from_node |-> "A", to_node |-> "B", condition |-> None],
      [from_node |-> "B", to_node |-> "C", condition |-> None]>>

ChainRequests ==
    {[nodes |-> <<[name |-> "A", tool |-> ta], [name |-> "B", tool |-> tb],
                  [name |-> "C", tool |-> tc]>>,
      edges |-> ChainEdges, initial_state |-> s0] :
        ta \in StepTools, tb \in StepTools, tc \in StepTools, s0 \in InitialStates}

\* create_code_review_workflow of src/setup_workflow.py.
ReviewNodes ==
    <<[name |-> "extract", tool |-> "extract_functions"],
      [name |-> "complexity", tool |-> "check_complexity"],
      [name |-> "issues", tool |-> "detect_issues"],
      [name |-> "improve", tool |-> "suggest_improvements"]>>

ReviewEdges ==
    <<[from_node |-> "extract", to_node |-> "complexity", condition |-> None],
      [from_node |-> "complexity", to_node |-> "issues", condition |-> None],
      [from_node |-> "issues", to_node |-> "improve", condition |-> None],
      [from_node |-> "improve", to_node |-> "improve", condition |-> ImproveAgain]>>

\* Function definitions as extract_functions reports them.
SmallFunction == [name |-> "another_function", line_start |-> 11,
                  args_count |-> 1, body_length |-> 1]
WideFunction == [name |-> "process_data", line_start |-> 2,
                 args_count |-> 6, body_length |-> 2]
BigFunction == [name |-> "main", line_start |-> 20,
                args_count |-> 7, body_length |-> 30]

Sources ==
    [length : {100, 6000}, globals : {1, 3}, bare_except : BOOLEAN,
     functions : {<<>>, <<SmallFunction>>, <<WideFunction, SmallFunction>>,
                  <<BigFunction>>, <<BigFunction, WideFunction>>}]

\* initial_state of run_code_review, {"code": code, "quality_threshold": 70},
\* and variations: no code, code that is no text, a quality_score already
\* present.
ReviewStates ==
    LET Codes == {[k \in {"code"} |-> PySrc(c)] : c \in Sources}
                 \cup {EmptyDict, [k \in {"code"} |-> PyInt(0)]}
        Extras == {[k \in {"quality_threshold"} |-> PyInt(70)],
                   [k \in {"quality_score"} |-> PyInt(10)],
                   [k \in {"quality_score"} |-> PyStr("low")]}
    IN  {Update(c, e) : c \in Codes, e \in Extras}

ReviewRequests ==
    {[nodes |-> ReviewNodes, edges |-> ReviewEdges, initial_state |-> s0] :
        s0 \in ReviewStates}

----------------------------------------------------------------------------
(* execute *)

Meta(st) == st["_meta"].dict

\* state['_meta'] = {'start_time': ..., 'iterations': 0, 'max_iterations': 50}
FreshMeta == PyDict([start_time |-> Now, iterations |-> 0,
                   max_iterations |-> MaxIterations])

\* Faulty variant: the visit is not counted.
IncrementSkipped(st) == st

\* state['_meta']['iterations'] += 1
Increment(st) ==
    [st EXCEPT !["_meta"] = PyDict([Meta(st) EXCEPT !.iterations = @ + 1])]

\* The loop condition of `while`.
LoopGuard(cur, st) ==
    /\ cur # None
    /\ cur # ""
    /\ Meta(st).iterations < Meta(st).max_iterations

\* log_entry = {'node': ..., 'timestamp': ..., 'iteration': ...}
NewLogEntry(cur, st) ==
    [node |-> cur, timestamp |-> Now, iteration |-> Meta(st).iterations]

\* state.update(result) and log_entry['output'] = result bind the objects of
\* result, not copies: when result has the key '_meta', the dict that is
\* state['_meta'] from then on is the one inside that entry's output.
\* Position of the log entry that holds it; 0 while it is the engine's own.
MetaHolder(log) ==
    LET S == {i \in 1..Len(log) :
                 /\ log[i].status = "success"
                 /\ "_meta" \in DOMAIN log[i].output}
    IN  IF S = {} THEN 0 ELSE CHOOSE i \in S : \A j \in S : j <= i

\* The log as it reads once state['_meta'] has been written in place.
Shared(log, st) ==
    IF MetaHolder(log) = 0 THEN log
    ELSE [log EXCEPT ![MetaHolder(log)].output["_meta"] = st["_meta"]]

\* Lines 111-112 write end_time and the log list itself into state['_meta'];
\* inside a log entry that holds the same dict the list is named, not nested.
SelfLog == "<self.execution_log>"

Stamped(st, log) ==
    [st EXCEPT !["_meta"] =
        PyDict([k \in DOMAIN Meta(st) \cup {"end_time", "execution_log"} |->
                CASE k = "end_time" -> Now
                  [] k = "execution_log" -> log
                  [] OTHER -> Meta(st)[k]])]

\* Faulty variant: state is the caller's mapping itself, not a copy of it.
ExecuteOnCallersMapping(r) ==
    /\ pc[r] = "built"
    /\ state' = [state EXCEPT ![r] = SetItem(initial_state[r], "_meta", FreshMeta)]
    /\ initial_state' = [initial_state EXCEPT ![r] = SetItem(@, "_meta", FreshMeta)]
    /\ current_node' = [current_node EXCEPT ![r] =
            IF nodes[r].keys # <<>> THEN nodes[r].keys[1] ELSE None]
    /\ pc' = [pc EXCEPT ![r] = "loop"]
    /\ UNCHANGED <<tool_registry, req_nodes, req_edges, nodes, edges, websocket,
                   execution_log, log_entry, tool_func, raised, sink_vars>>

\* Faulty variant: the first key is taken without the test `if self.nodes`.
ExecuteUnguarded(r) ==
    /\ pc[r] = "built"
    /\ state' = [state EXCEPT ![r] = SetItem(initial_state[r], "_meta", FreshMeta)]
    /\ IF nodes[r].keys # <<>>
       THEN /\ current_node' = [current_node EXCEPT ![r] = nodes[r].keys[1]]
            /\ pc' = [pc EXCEPT ![r] = "loop"]
            /\ UNCHANGED raised
       ELSE /\ pc' = [pc EXCEPT ![r] = "raised"]
            /\ raised' = [raised EXCEPT ![r] = "IndexError"]
            /\ UNCHANGED current_node
    /\ UNCHANGED <<tool_registry, request_vars, execution_log, log_entry,
                   tool_func, sink_vars>>

\* Faulty variant: the run starts at the node declared last.
ExecuteFromLast(r) ==
    /\ pc[r] = "built"
    /\ state' = [state EXCEPT ![r] = SetItem(initial_state[r], "_meta", FreshMeta)]
    /\ current_node' = [current_node EXCEPT ![r] =
            IF nodes[r].keys # <<>> THEN Last(nodes[r].keys) ELSE None]
    /\ pc' = [pc EXCEPT ![r] = "loop"]
    /\ UNCHANGED <<tool_registry, request_vars, execution_log, log_entry,
                   tool_func, raised, sink_vars>>

\* Lines 68-75: copy the initial state, stamp the metadata, pick the start.
\* The caller's mapping is left alone: state is a copy of it.
Execute(r) ==
    /\ pc[r] = "built"
    /\ state' = [state EXCEPT ![r] = SetItem(initial_state[r], "_meta", FreshMeta)]
    /\ current_node' = [current_node EXCEPT ![r] =
            IF nodes[r].keys # <<>> THEN nodes[r].keys[1] ELSE None]
    /\ pc' = [pc EXCEPT ![r] = "loop"]
    /\ UNCHANGED <<tool_registry, request_vars, execution_log, log_entry,
                   tool_func, raised, sink_vars>>

\* Faulty variant: the next node is selected against the state before the merge.
AfterVisitStaleState(r, st, entry) ==
    /\ execution_log' = [execution_log EXCEPT ![r] =
            Shared(Append(@, entry), Increment(st))]
    /\ state' = [state EXCEPT ![r] = Increment(st)]
    /\ current_node' = [current_node EXCEPT ![r] =
            GetNextNode(edges[r], current_node[r], state[r])]
    /\ log_entry' = [log_entry EXCEPT ![r] = None]
    /\ pc' = [pc EXCEPT ![r] = "loop"]

\* Faulty variant: the log is one list shared by every engine.
AfterVisitSharedLog(r, st, entry) ==
    /\ execution_log' = [q \in Runs |-> Append(execution_log[q], entry)]
    /\ state' = [state EXCEPT ![r] = Increment(st)]
    /\ current_node' = [current_node EXCEPT ![r] =
            GetNextNode(edges[r], current_node[r], Increment(st))]
    /\ log_entry' = [log_entry EXCEPT ![r] = None]
    /\ pc' = [pc EXCEPT ![r] = "loop"]

\* Lines 100, 108-109: append, count the visit, select the next node.
AfterVisit(r, st, entry) ==
    /\ execution_log' = [execution_log EXCEPT ![r] =
            Shared(Append(@, entry), Increment(st))]
    /\ state' = [state EXCEPT ![r] = Increment(st)]
    /\ current_node' = [current_node EXCEPT ![r] =
            GetNextNode(edges[r], current_node[r], Increment(st))]
    /\ log_entry' = [log_entry EXCEPT ![r] = None]
    /\ pc' = [pc EXCEPT ![r] = "loop"]

\* Lines 100-104 with a websocket: append, hand the entry to send_json and
\* suspend there; the visit is counted when the send is over.
SendJson(r, st, entry) ==
    /\ execution_log' = [execution_log EXCEPT ![r] = Append(@, entry)]
    /\ state' = [state EXCEPT ![r] = st]
    /\ log_entry' = [log_entry EXCEPT ![r] = entry]
    /\ sink_offered' = [sink_offered EXCEPT ![r] = Append(@, entry)]
    /\ pc' = [pc EXCEPT ![r] = "sink"]
    /\ UNCHANGED <<current_node, sink_status>>

\* Lines 100-109: `if websocket:` decides between the two.
FinishVisit(r, st, entry) ==
    IF websocket[r] = None
    THEN AfterVisit(r, st, entry) /\ UNCHANGED sink_vars
    ELSE SendJson(r, st, entry)

\* Lines 108-109 after the send: count the visit, select the next node.
Resume(r) ==
    /\ execution_log' = [execution_log EXCEPT ![r] =
            Shared(@, Increment(state[r]))]
    /\ state' = [state EXCEPT ![r] = Increment(@)]
    /\ current_node' = [current_node EXCEPT ![r] =
            GetNextNode(edges[r], current_node[r], Increment(state[r]))]
    /\ log_entry' = [log_entry EXCEPT ![r] = None]
    /\ pc' = [pc EXCEPT ![r] = "loop"]
    /\ UNCHANGED <<tool_registry, request_vars, tool_func, raised, sink_offered>>

\* Lines 103-104: send_json returns.
SinkDelivers(r) ==
    /\ pc[r] = "sink"
    /\ sink_status' = [sink_status EXCEPT ![r] = "delivered"]
    /\ Resume(r)

\* Faulty variant: a failing send_json is not caught and leaves execute.
SinkFailsUncaught(r) ==
    /\ pc[r] = "sink"
    /\ sink_status' = [sink_status EXCEPT ![r] = "failed"]
    /\ pc' = [pc EXCEPT ![r] = "raised"]
    /\ raised' = [raised EXCEPT ![r] = "WebSocketDisconnect"]
    /\ UNCHANGED <<tool_registry, request_vars, execution_log, state,
                   current_node, log_entry, tool_func, sink_offered>>

\* Lines 105-106: send_json raises; `except: pass`.
SinkFails(r) ==
    /\ pc[r] = "sink"
    /\ sink_status' = [sink_status EXCEPT ![r] = "failed"]
    /\ Resume(r)

\* Line 78 on a name that is no key of self.nodes: KeyError leaves execute.
LookupFails(r) ==
    /\ pc[r] = "loop"
    /\ LoopGuard(current_node[r], state[r])
    /\ current_node[r] \notin DOMAIN nodes[r].val
    /\ pc' = [pc EXCEPT ![r] = "raised"]
    /\ raised' = [raised EXCEPT ![r] = "KeyError"]
    /\ UNCHANGED <<tool_registry, request_vars, execution_log, state,
                   current_node, log_entry, tool_func, sink_vars>>

\* Lines 77-89: the tool is registered; bind tool_func, call it and suspend
\* at the await.
InvokeTool(r) ==
    /\ pc[r] = "loop"
    /\ LoopGuard(current_node[r], state[r])
    /\ Len(execution_log[r]) < MaxVisits
    /\ current_node[r] \in DOMAIN nodes[r].val
    /\ nodes[r].val[current_node[r]].tool \in DOMAIN tool_registry
    /\ log_entry' = [log_entry EXCEPT ![r] = NewLogEntry(current_node[r], state[r])]
    /\ tool_func' = [tool_func EXCEPT ![r] =
            tool_registry[nodes[r].val[current_node[r]].tool]]
    /\ pc' = [pc EXCEPT ![r] = "tool"]
    /\ UNCHANGED <<tool_registry, request_vars, execution_log, state,
                   current_node, raised, sink_vars>>

\* Faulty variant: an exception of the tool is not caught and leaves execute.
ToolReturnsUncaught(r) ==
    /\ pc[r] = "tool"
    /\ LET result == ToolCall(tool_func[r], state[r])
       IN  IF result.raised
           THEN /\ pc' = [pc EXCEPT ![r] = "raised"]
                /\ raised' = [raised EXCEPT ![r] = result.error]
                /\ UNCHANGED <<execution_log, state, current_node, log_entry,
                               sink_vars>>
           ELSE /\ FinishVisit(r, Update(state[r], result.value),
                        [node |-> log_entry[r].node,
                         timestamp |-> log_entry[r].timestamp,
                         iteration |-> log_entry[r].iteration,
                         status |-> "success", output |-> result.value])
                /\ UNCHANGED raised
    /\ tool_func' = [tool_func EXCEPT ![r] = None]
    /\ UNCHANGED <<tool_registry, request_vars>>

\* Lines 89-109: the awaited tool returns a mapping or raises.
ToolReturns(r) ==
    /\ pc[r] = "tool"
    /\ LET result == ToolCall(tool_func[r], state[r])
       IN  IF result.raised
           THEN FinishVisit(r, SetItem(state[r], "_error", PyStr(result.error)),
                    [node |-> log_entry[r].node,
                     timestamp |-> log_entry[r].timestamp,
                     iteration |-> log_entry[r].iteration,
                     status |-> "error", error |-> result.error])
           ELSE FinishVisit(r, Update(state[r], result.value),
                    [node |-> log_entry[r].node,
                     timestamp |-> log_entry[r].timestamp,
                     iteration |-> log_entry[r].iteration,
                     status |-> "success", output |-> result.value])
    /\ tool_func' = [tool_func EXCEPT ![r] = None]
    /\ UNCHANGED <<tool_registry, request_vars, raised>>

\* Faulty variant: a missing tool is recorded in the state like a tool failure.
ToolNotFoundSetsError(r) ==
    /\ pc[r] = "loop"
    /\ LoopGuard(current_node[r], state[r])
    /\ Len(execution_log[r]) < MaxVisits
    /\ current_node[r] \in DOMAIN nodes[r].val
    /\ nodes[r].val[current_node[r]].tool \notin DOMAIN tool_registry
    /\ LET e == NewLogEntry(current_node[r], state[r])
       IN  FinishVisit(r, SetItem(state[r], "_error", PyStr("tool not found")),
               [node |-> e.node, timestamp |-> e.timestamp,
                iteration |-> e.iteration, status |-> "tool_not_found"])
    /\ UNCHANGED <<tool_registry, request_vars, tool_func, raised>>

\* Lines 77-86, 97-109: the tool is not registered.
ToolNotFound(r) ==
    /\ pc[r] = "loop"
    /\ LoopGuard(current_node[r], state[r])
    /\ Len(execution_log[r]) < MaxVisits
    /\ current_node[r] \in DOMAIN nodes[r].val
    /\ nodes[r].val[current_node[r]].tool \notin DOMAIN tool_registry
    /\ LET e == NewLogEntry(current_node[r], state[r])
       IN  FinishVisit(r, state[r],
               [node |-> e.node, timestamp |-> e.timestamp,
                iteration |-> e.iteration, status |-> "tool_not_found"])
    /\ UNCHANGED <<tool_registry, request_vars, tool_func, raised>>

\* Lines 77, 111-114: the loop condition is false; stamp and return state.
Return(r) ==
    /\ pc[r] = "loop"
    /\ ~LoopGuard(current_node[r], state[r])
    /\ LET log == Shared(execution_log[r], Stamped(state[r], SelfLog))
       IN  /\ execution_log' = [execution_log EXCEPT ![r] = log]
           /\ state' = [state EXCEPT ![r] = Stamped(@, log)]
    /\ pc' = [pc EXCEPT ![r] = "done"]
    /\ UNCHANGED <<tool_registry, request_vars, current_node, log_entry,
                   tool_func, raised, sink_vars>>

\* register_tool(name, func), lines 116-117, called while some run is
\* suspended at an await: tool_registry[name] = func.  It is the first call
\* since setup.
RegisterTool(name, func) ==
    /\ \E r \in Runs : pc[r] \in {"tool", "sink"}
    /\ tool_registry = [t \in Callables |-> t]
    /\ name \in DOMAIN tool_registry => tool_registry[name] # func
    /\ tool_registry' = SetItem(tool_registry, name, func)
    /\ UNCHANGED <<request_vars, execution_log, state, current_node, log_entry,
                   tool_func, pc, raised, sink_vars>>

----------------------------------------------------------------------------
(* Specifications *)

NoRequest == [nodes |-> <<>>, edges |-> <<>>, initial_state |-> EmptyDict]

\* register_tool(name, func) for every tool of setup; for each run of
\* `active` one engine constructed from its graph definition (run_graph,
\* lines 138-142; websocket_run, lines 178-182), not yet executed.  req and
\* ws give each run its request and its websocket (None for run_graph).
Constructed(req, ws, active) ==
    /\ tool_registry = [t \in Callables |-> t]
    /\ req_nodes = [r \in Runs |-> req[r].nodes]
    /\ req_edges = [r \in Runs |-> req[r].edges]
    /\ initial_state = [r \in Runs |-> req[r].initial_state]
    /\ nodes = [r \in Runs |-> NodeDict(req[r].nodes)]
    /\ edges = [r \in Runs |-> BuildEdgeMap(req[r].edges)]
    /\ websocket = ws
    /\ execution_log = [r \in Runs |-> <<>>]
    /\ state = [r \in Runs |-> EmptyDict]
    /\ current_node = [r \in Runs |-> None]
    /\ log_entry = [r \in Runs |-> None]
    /\ tool_func = [r \in Runs |-> None]
    /\ pc = [r \in Runs |-> IF r \in active THEN "built" ELSE "idle"]
    /\ raised = [r \in Runs |-> None]
    /\ sink_offered = [r \in Runs |-> <<>>]
    /\ sink_status = [r \in Runs |-> None]

\* One run of one freshly constructed engine, no websocket.
Init ==
    \E q \in GraphRunRequests \cup ChainRequests \cup ReviewRequests :
        Constructed([r \in Runs |-> IF r = 1 THEN q ELSE NoRequest],
                    [r \in Runs |-> None], {1})

Next ==
    \E r \in Runs :
        \/ Execute(r)
        \/ LookupFails(r)
        \/ InvokeTool(r)
        \/ ToolReturns(r)
        \/ ToolNotFound(r)
        \/ Return(r)

Spec == Init /\ [][Next]_vars

----------------------------------------------------------------------------
(* Vocabulary of the properties *)

\* Run r took the step.
Moved(r) ==
    <<execution_log[r], state[r], current_node[r], log_entry[r], tool_func[r],
      pc[r], raised[r]>>'
        # <<execution_log[r], state[r], current_node[r], log_entry[r],
            tool_func[r], pc[r], raised[r]>>

\* The step of run r was a node visit: one entry joined its log.
Visited(r) == Len(execution_log'[r]) = Len(execution_log[r]) + 1

\* Two nodes of the list share a name.
DuplicateNames(ns) ==
    \E i, j \in 1..Len(ns) : i < j /\ ns[i].name = ns[j].name

\* The name is selected but is no node of the graph.
Dangling(r) ==
    /\ current_node[r] # None
    /\ \A i \in 1..Len(req_nodes[r]) : req_nodes[r][i].name # current_node[r]

Min(S) == CHOOSE x \in S : \A y \in S : x <= y

\* Positions, in declaration order, of the edges that leave node cur.
Outgoing(es, cur) == {i \in 1..Len(es) : es[i].from_node = cur}

\* Target of the first declared edge of cur, among those at positions T.
FirstOf(es, T) == IF T = {} THEN None ELSE es[Min(T)].to_node

\* Target of the first declared edge of cur whose condition the evaluator
\* finds true on st; None when there is none.
DeclaredNext(es, cur, st) ==
    FirstOf(es, {i \in Outgoing(es, cur) : EvaluateCondition(es[i].condition, st)})

\* The k-th smallest member of a set of positions.
RECURSIVE Nth(_, _)
Nth(T, k) == IF k = 1 THEN Min(T) ELSE Nth(T \ {Min(T)}, k - 1)

\* Run r stands before a visit of a node whose tool is not registered.
ToolMissing(r) ==
    /\ pc[r] = "loop"
    /\ LoopGuard(current_node[r], state[r])
    /\ \E i \in 1..Len(req_nodes[r]) : req_nodes[r][i].name = current_node[r]
    /\ nodes[r].val[current_node[r]].tool \notin DOMAIN tool_registry

\* What the tool awaited by run r returns or raises.
Awaited(r) == ToolCall(tool_func[r], state[r])

\* Run r awaits a tool invocation that fails.
ToolFails(r) == pc[r] = "tool" /\ Awaited(r).raised

\* What the engine itself writes into a log entry.
Stamp(e) == <<e.node, e.timestamp, e.iteration, e.status>>

\* The log of run r grew by exactly one entry, the earlier ones in place.
OneEntryAppended(r) ==
    /\ Visited(r)
    /\ \A i \in 1..Len(execution_log[r]) :
           Stamp(execution_log'[r][i]) = Stamp(execution_log[r][i])

----------------------------------------------------------------------------
(* C1: every run makes at most max_iterations node visits, whatever the    *)
(* registered tools return.                                                *)
C1_VisitsWithinMaxIterations ==
    \A r \in Runs : Len(execution_log[r]) <= MaxIterations

(* C2: a visit whose tool returns a mapping with the reserved key "_meta"  *)
(* leaves start time and max_iterations as they were and changes the       *)
(* iteration count only by the engine's own increment.                     *)
C2_MetadataNotClobbered ==
    [][\A r \in Runs :
        (/\ Visited(r)
         /\ Last(execution_log'[r]).status = "success"
         /\ "_meta" \in DOMAIN Last(execution_log'[r]).output)
        => /\ Meta(state'[r]).start_time = Meta(state[r]).start_time
           /\ Meta(state'[r]).max_iterations = Meta(state[r]).max_iterations
           /\ Meta(state'[r]).iterations = Meta(state[r]).iterations + 1]_vars

(* C3: a selected next node that is no node of the graph ends the run as   *)
(* "no next node" does: no exception leaves execute.                       *)
C3_DanglingEdgeCompletes ==
    \A r \in Runs :
        Dangling(r) => pc[r] \in {"loop", "done"} /\ raised[r] = None

(* C4: no run is started on a graph built from a node list in which two    *)
(* nodes share a name: no tool is invoked and nothing is logged.           *)
C4_DuplicateNamesNeverRun ==
    \A r \in Runs :
        DuplicateNames(req_nodes[r])
        => pc[r] \notin {"loop", "tool", "done"} /\ execution_log[r] = <<>>

(* C5: after each visit the next node is the target of the first edge, in *)
(* declaration order among the visited node's outgoing edges, whose        *)
(* condition evaluates true on the post-merge state; None when no edge of  *)
(* the node is true.                                                       *)
C5_FirstDeclaredTrueEdgeTaken ==
    [][\A r \in Runs :
        Visited(r)
        => current_node'[r] =
               DeclaredNext(req_edges[r], current_node[r], state'[r])]_vars

\* A visited node with three outgoing edges, the first two true with
\* different targets: the first one's target is the node selected.
C5_Witness ==
    \E r \in Runs :
        /\ pc[r] = "loop"
        /\ execution_log[r] # <<>>
        /\ LET es == req_edges[r]
               out == Outgoing(es, Last(execution_log[r]).node)
           IN  /\ Cardinality(out) >= 3
               /\ EvaluateCondition(es[Nth(out, 1)].condition, state[r])
               /\ EvaluateCondition(es[Nth(out, 2)].condition, state[r])
               /\ es[Nth(out, 1)].to_node # es[Nth(out, 2)].to_node
               /\ current_node[r] = es[Nth(out, 1)].to_node

(* C6: a visit of a node whose tool is not registered appends exactly one  *)
(* log entry, of status tool_not_found, leaves the user/tool fields of the *)
(* state unchanged, and selects the next node on that state: the run goes  *)
(* on.                                                                     *)
C6_ToolNotFoundIsNoOp ==
    [][\A r \in Runs :
        (ToolMissing(r) /\ Moved(r))
        => /\ OneEntryAppended(r)
           /\ Last(execution_log'[r]).status = "tool_not_found"
           /\ Last(execution_log'[r]).node = current_node[r]
           /\ UserFields(state'[r]) = UserFields(state[r])
           /\ pc'[r] = "loop" /\ raised'[r] = None
           /\ current_node'[r] =
                  DeclaredNext(req_edges[r], current_node[r], state'[r])]_vars

\* A tool_not_found visit after which another node was visited.
C6_Witness ==
    \E r \in Runs : \E i \in 1..Len(execution_log[r]) :
        /\ execution_log[r][i].status = "tool_not_found"
        /\ i < Len(execution_log[r])
        /\ "score" \in DOMAIN state[r]

(* C7: a failing tool invocation does not leave execute: one log entry of  *)
(* status error carries the message, state['_error'] holds the same        *)
(* message, and the run goes on with next-node selection.                  *)
C7_ToolFailureRecorded ==
    [][\A r \in Runs :
        (ToolFails(r) /\ Moved(r))
        => /\ OneEntryAppended(r)
           /\ Last(execution_log'[r]).status = "error"
           /\ Last(execution_log'[r]).error = Awaited(r).error
           /\ "_error" \in DOMAIN state'[r]
           /\ state'[r]["_error"] = PyStr(Awaited(r).error)
           /\ pc'[r] = "loop" /\ raised'[r] = None
           /\ current_node'[r] =
                  DeclaredNext(req_edges[r], current_node[r], state'[r])]_vars

\* A failed visit followed by the visit of another node.
C7_Witness ==
    \E r \in Runs : \E i \in 1..Len(execution_log[r]) :
        /\ execution_log[r][i].status = "error"
        /\ i < Len(execution_log[r])
        /\ execution_log[r][i + 1].node # execution_log[r][i].node
        /\ state[r]["_error"] = PyStr(execution_log[r][i].error)

\* The edge at position i of es is active on st: its condition is absent,
\* or evaluates without failure to true.
Active(es, i, st) ==
    \/ es[i].condition = None
    \/ /\ ~Eval(es[i].condition, st).raised
       /\ Eval(es[i].condition, st).value

(* C8: an absent condition is true and a condition whose evaluation fails  *)
(* is false and never aborts the run: selection passes over the failing    *)
(* edge and takes the first later edge that is active.                     *)
C8_FailedConditionIsInactive ==
    [][\A r \in Runs :
        Visited(r)
        => /\ pc'[r] = "loop" /\ raised'[r] = None
           /\ current_node'[r] =
                  FirstOf(req_edges[r],
                          {i \in Outgoing(req_edges[r], current_node[r]) :
                              Active(req_edges[r], i, state'[r])})]_vars

\* A visited node whose first edge is malformed and whose second edge fails
\* on a missing key or a type error; the third, unconditional, is taken.
C8_Witness ==
    \E r \in Runs :
        /\ pc[r] = "loop"
        /\ execution_log[r] # <<>>
        /\ LET es == req_edges[r]
               v == Last(execution_log[r]).node
               out == Outgoing(es, v)
           IN  /\ Cardinality(out) >= 3
               /\ es[Nth(out, 1)].condition = Malformed
               /\ es[Nth(out, 2)].condition = ScoreLt70
               /\ Eval(ScoreLt70, state[r]).raised
               /\ es[Nth(out, 3)].condition = None
               /\ es[Nth(out, 3)].to_node # v
               /\ current_node[r] = es[Nth(out, 3)].to_node

\* One node "a" with the tool that adds 30 to score, its only edge the
\* self-loop under score < 70, started with score = 50.
SelfLoopScenario(r) ==
    /\ req_nodes[r] = <<[name |-> "a", tool |-> "add30"]>>
    /\ req_edges[r] = <<[from_node |-> "a", to_node |-> "a", condition |-> ScoreLt70]>>
    /\ initial_state[r] = [k \in {"score"} |-> PyInt(50)]

(* C9, as claimed: the self-loop scenario halts after exactly 3 visits of  *)
(* the node, with a log of exactly 3 entries for it.                       *)
C9_ThreeVisits ==
    \A r \in Runs :
        (SelfLoopScenario(r) /\ pc[r] = "done")
        => /\ Len(execution_log[r]) = 3
           /\ \A i \in 1..Len(execution_log[r]) : execution_log[r][i].node = "a"

(* C9, amended: the self-loop scenario completes after exactly 1 visit:    *)
(* the visit raises score to 80, the self-loop condition is false on the   *)
(* post-merge state, no next node is selected and the log has 1 entry.     *)
C9_OneVisit ==
    \A r \in Runs :
        (SelfLoopScenario(r) /\ pc[r] = "done")
        => /\ Len(execution_log[r]) = 1
           /\ execution_log[r][1].node = "a"
           /\ execution_log[r][1].status = "success"
           /\ state[r]["score"] = PyInt(80)
           /\ Meta(state[r]).iterations = 1
           /\ current_node[r] = None

\* The self-loop scenario has returned.
C9_Witness ==
    \E r \in Runs : SelfLoopScenario(r) /\ pc[r] = "done"

\* The outcome flag of a returned state, None when it carries none.
OutcomeFlag(st) ==
    IF "status" \in DOMAIN Meta(st) THEN Meta(st)["status"] ELSE None

(* C10: the returned state is flagged halted when the run stopped at the   *)
(* iteration cap with a next node still selected, and completed when it    *)
(* stopped because no next node was selected.                              *)
C10_OutcomeFlagged ==
    \A r \in Runs :
        pc[r] = "done"
        => OutcomeFlag(state[r]) =
               IF current_node[r] # None THEN "halted" ELSE "completed"

----------------------------------------------------------------------------
(* Specification: one run, with register_tool called while it is suspended *)

\* The graph definitions with at most MaxEdges edges.
RegRequests == {q \in GraphRunRequests : Len(q.edges) <= MaxEdges}

InitReg ==
    \E q \in RegRequests :
        Constructed([r \in Runs |-> IF r = 1 THEN q ELSE NoRequest],
                    [r \in Runs |-> None], {1})

NextReg ==
    \/ Next
    \/ \E name \in ToolRefs, func \in RegisteredTools : RegisterTool(name, func)

SpecReg == InitReg /\ [][NextReg]_vars

\* The tool name of the node a log entry was written for.
ToolName(r, e) == nodes[r].val[e.node].tool

\* Two log entries show the same binding: both found no tool, or both found
\* one and, where both succeeded, it returned the same keys.
SameBinding(e1, e2) ==
    /\ (e1.status = "tool_not_found") <=> (e2.status = "tool_not_found")
    /\ (e1.status = "success" /\ e2.status = "success")
       => DOMAIN e1.output = DOMAIN e2.output

(* C11: within one run the tool bound to a tool name does not change: a    *)
(* later visit of a node with that tool name uses the binding, or the      *)
(* absence of one, that the run's earlier visits used, even when           *)
(* register_tool was called in between.                                    *)
C11_BindingStableWithinRun ==
    \A r \in Runs : \A i, j \in 1..Len(execution_log[r]) :
        (i < j /\ ToolName(r, execution_log[r][i]) = ToolName(r, execution_log[r][j]))
        => SameBinding(execution_log[r][i], execution_log[r][j])

----------------------------------------------------------------------------
(* Specification: one run, with or without a websocket *)

\* The graph definitions with at most one edge, and the chains.
SinkRequests == {q \in GraphRunRequests : Len(q.edges) <= 1} \cup ChainRequests

\* execute(initial_state) of run_graph, or execute(initial_state, websocket)
\* of websocket_run (line 184).
InitSink ==
    \E q \in SinkRequests, ws \in {None, "websocket"} :
        Constructed([r \in Runs |-> IF r = 1 THEN q ELSE NoRequest],
                    [r \in Runs |-> IF r = 1 THEN ws ELSE None], {1})

NextSink ==
    \/ Next
    \/ \E r \in Runs : SinkDelivers(r) \/ SinkFails(r)

SpecSink == InitSink /\ [][NextSink]_vars

\* execute(initial_state) run from start to end without suspension and
\* without a websocket, from the node cur on state st with the log so far:
\* what it returns or raises.  A run of more than MaxVisits visits is not
\* followed to its end.
RECURSIVE RunFrom(_, _, _, _, _, _)
RunFrom(registry, node_dict, edge_map, cur, st, log) ==
    IF ~LoopGuard(cur, st)
    THEN LET final == Shared(log, Stamped(st, SelfLog))
         IN  [raised |-> None, log |-> final, state |-> Stamped(st, final)]
    ELSE IF cur \notin DOMAIN node_dict.val
    THEN [raised |-> "KeyError", log |-> log, state |-> st]
    ELSE IF Len(log) >= MaxVisits
    THEN [raised |-> "not followed", log |-> log, state |-> st]
    ELSE LET tool == node_dict.val[cur].tool
             e == NewLogEntry(cur, st)
             found == tool \in DOMAIN registry
             result == ToolCall(registry[tool], st)
             merged == IF ~found THEN st
                       ELSE IF result.raised
                       THEN SetItem(st, "_error", PyStr(result.error))
                       ELSE Update(st, result.value)
             entry == IF ~found
                      THEN [node |-> e.node, timestamp |-> e.timestamp,
                            iteration |-> e.iteration, status |-> "tool_not_found"]
                      ELSE IF result.raised
                      THEN [node |-> e.node, timestamp |-> e.timestamp,
                            iteration |-> e.iteration, status |-> "error",
                            error |-> result.error]
                      ELSE [node |-> e.node, timestamp |-> e.timestamp,
                            iteration |-> e.iteration, status |-> "success",
                            output |-> result.value]
         IN  RunFrom(registry, node_dict, edge_map,
                     GetNextNode(edge_map, cur, Increment(merged)),
                     Increment(merged),
                     Shared(Append(log, entry), Increment(merged)))

\* The run of r's engine on r's initial state, alone and with no websocket.
RunAlone(r) ==
    RunFrom(tool_registry, nodes[r], edges[r],
            IF nodes[r].keys # <<>> THEN nodes[r].keys[1] ELSE None,
            SetItem(initial_state[r], "_meta", FreshMeta), <<>>)

\* Run r has ended as RunAlone(r) ends: the same log, hence the same nodes
\* visited in the same order, the same user/tool fields, the same exception.
EndsAsAlone(r) ==
    /\ execution_log[r] = RunAlone(r).log
    /\ UserFields(state[r]) = UserFields(RunAlone(r).state)
    /\ raised[r] = RunAlone(r).raised

(* C12: an attached websocket is offered every log entry, once each, in    *)
(* the order the entries are appended; whichever sends fail, the run ends  *)
(* with the log, the visited nodes and the user/tool fields of the same    *)
(* run with no websocket.                                                  *)
C12_SinkIsBestEffort ==
    \A r \in Runs :
        /\ websocket[r] = None => sink_offered[r] = <<>>
        /\ websocket[r] # None
           => /\ Len(sink_offered[r]) = Len(execution_log[r])
              /\ \A i \in 1..Len(execution_log[r]) :
                     Stamp(sink_offered[r][i]) = Stamp(execution_log[r][i])
        /\ pc[r] \in {"done", "raised"} => EndsAsAlone(r)

\* A run with a websocket has returned after two or more visits, one of them
\* a success, and the last send failed.
C12_Witness ==
    \E r \in Runs :
        /\ websocket[r] # None
        /\ pc[r] = "done"
        /\ sink_status[r] = "failed"
        /\ Len(execution_log[r]) >= 2
        /\ \E i \in 1..Len(execution_log[r]) : execution_log[r][i].status = "success"

----------------------------------------------------------------------------
(* Specification: two runs of two engines, interleaved *)

\* The graph of add30 followed by reset_meta and the graph of one node whose
\* tool is not registered, with at most one edge: from "a" to "b", or the
\* self-loop of "a" under score < 70.
TwoRequests ==
    {q \in SinkRequests :
        /\ q.nodes \in {<<[name |-> "a", tool |-> "add30"],
                          [name |-> "b", tool |-> "reset_meta"]>>,
                        <<[name |-> "a", tool |-> "nope"]>>}
        /\ \A i \in 1..Len(q.edges) :
               /\ q.edges[i].from_node = "a"
               /\ q.edges[i].condition # Malformed
               /\ q.edges[i].to_node = "a" => q.edges[i].condition = ScoreLt70}

\* Two requests with different initial states, each with an engine of its
\* own (lines 138-142); the first run streams to a websocket.
InitTwo ==
    \E q1 \in TwoRequests, q2 \in TwoRequests :
        /\ q1.initial_state # q2.initial_state
        /\ Constructed([r \in Runs |-> IF r = 1 THEN q1 ELSE q2],
                       [r \in Runs |-> IF r = 1 THEN "websocket" ELSE None],
                       Runs)

SpecTwo == InitTwo /\ [][NextSink]_vars

\* Two states have the same keys bound to the same values, the metadata
\* compared entry by entry.
SameState(s, t) ==
    /\ UserFields(s) = UserFields(t)
    /\ DOMAIN Meta(s) = DOMAIN Meta(t)
    /\ \A k \in DOMAIN Meta(s) : Meta(s)[k] = Meta(t)[k]

(* C13: two runs on two engines with different initial states, interleaved *)
(* in any way, share no run state while the registry is not modified: each *)
(* run ends with the log, hence the sequence of visited nodes, the final   *)
(* state and the exception of that run executed alone.                     *)
C13_RunsAreIsolated ==
    \A r \in Runs :
        pc[r] \in {"done", "raised"}
        => LET alone == RunAlone(r)
           IN  /\ execution_log[r] = alone.log
               /\ SameState(state[r], alone.state)
               /\ raised[r] = alone.raised

\* Both runs are suspended in the middle of their runs, on different states.
C13_Witness ==
    /\ pc[1] = "sink" /\ pc[2] = "tool"
    /\ Len(execution_log[1]) >= 2 /\ Len(execution_log[2]) >= 1
    /\ UserFields(state[1]) # UserFields(state[2])

----------------------------------------------------------------------------
(* C14: the mapping a tool returns is merged into the state by shallow     *)
(* overwrite: after the visit every key of the mapping is bound to the     *)
(* returned value, whatever the key was bound to before, and every other   *)
(* key but the engine's '_meta' keeps its value; no key is lost.           *)
C14_MergeIsShallowOverwrite ==
    [][\A r \in Runs :
        (pc[r] = "tool" /\ ~Awaited(r).raised /\ Moved(r))
        => LET result == Awaited(r).value
           IN  /\ DOMAIN state'[r] = DOMAIN state[r] \cup DOMAIN result
               /\ \A k \in DOMAIN result :
                      /\ state'[r][k] = Last(execution_log'[r]).output[k]
                      /\ k # "_meta" => state'[r][k] = result[k]
               /\ \A k \in DOMAIN state[r] \ (DOMAIN result \cup {"_meta"}) :
                      state'[r][k] = state[r][k]]_vars

\* A returned run in which two visits returned different values for the key
\* score, which the caller had set as well: the state holds the later one.
C14_Witness ==
    \E r \in Runs :
        /\ pc[r] = "done"
        /\ "score" \in DOMAIN initial_state[r]
        /\ \E i, j \in 1..Len(execution_log[r]) :
              /\ i < j /\ j = Len(execution_log[r])
              /\ execution_log[r][i].status = "success"
              /\ execution_log[r][j].status = "success"
              /\ "score" \in DOMAIN execution_log[r][i].output
              /\ "score" \in DOMAIN execution_log[r][j].output
              /\ execution_log[r][i].output["score"] # execution_log[r][j].output["score"]
              /\ state[r]["score"] = execution_log[r][j].output["score"]
              /\ state[r]["score"] # initial_state[r]["score"]

----------------------------------------------------------------------------
\* Run r is on a chain A to B to C of unconditional edges, each node with a
\* registered tool that writes its mark and does not fail.
ChainScenario(r) ==
    /\ req_edges[r] = ChainEdges
    /\ Len(req_nodes[r]) = 3
    /\ \A i \in 1..3 :
          /\ req_nodes[r][i].name = <<"A", "B", "C">>[i]
          /\ req_nodes[r][i].tool \in StepTools \cap DOMAIN tool_registry

(* C15: on the chain A to B to C the run starts at the first declared node *)
(* and visits A, B, C in that order, once each: the log never has more     *)
(* than these three entries, all of status success, and the returned state *)
(* holds under 'step' the mark written by the tool of C.                   *)
C15_ChainVisitedInOrder ==
    \A r \in Runs :
        ChainScenario(r)
        => /\ Len(execution_log[r]) <= 3
           /\ \A i \in 1..Len(execution_log[r]) :
                  /\ execution_log[r][i].node = <<"A", "B", "C">>[i]
                  /\ execution_log[r][i].status = "success"
           /\ pc[r] # "raised"
           /\ pc[r] = "loop" /\ execution_log[r] = <<>> => current_node[r] = "A"
           /\ pc[r] = "done"
              => /\ Len(execution_log[r]) = 3
                 /\ state[r]["step"] = PyStr(StepMark[req_nodes[r][3].tool])
                 /\ Meta(state[r]).iterations = 3

\* The chain whose tools write A, B and C, started on {}, has returned with
\* step = C.
C15_Witness ==
    \E r \in Runs :
        /\ ChainScenario(r)
        /\ initial_state[r] = EmptyDict
        /\ \A i \in 1..3 : StepMark[req_nodes[r][i].tool] = <<"A", "B", "C">>[i]
        /\ pc[r] = "done"
        /\ state[r]["step"] = PyStr("C")

----------------------------------------------------------------------------
\* The node has no outgoing edge in the declared edge list of run r.
NoOutgoingEdge(r, node) == Outgoing(req_edges[r], node) = {}

(* C16: a visit of a node with no outgoing edge is the last of the run,    *)
(* whatever the outcome of its tool: one entry is appended for it, no next *)
(* node is selected, no further entry follows, and the only step left to   *)
(* the run is to return.                                                   *)
C16_NoOutgoingEdgeEndsRun ==
    \A r \in Runs : \A i \in 1..Len(execution_log[r]) :
        NoOutgoingEdge(r, execution_log[r][i].node)
        => /\ i = Len(execution_log[r])
           /\ \A j \in 1..(i - 1) :
                  execution_log[r][j].node # execution_log[r][i].node
           /\ pc[r] \in {"loop", "done"}
           /\ current_node[r] = None
           /\ raised[r] = None

\* A returned run whose second and last visit, of a node without outgoing
\* edge, ended in a tool error.
C16_Witness ==
    \E r \in Runs :
        /\ pc[r] = "done"
        /\ Len(execution_log[r]) = 2
        /\ NoOutgoingEdge(r, execution_log[r][2].node)
        /\ execution_log[r][2].status = "error"

----------------------------------------------------------------------------
(* C17: the log of a run on a freshly built engine has one entry per node  *)
(* visit, the k-th entry (from 0) carrying iteration k, and at return the  *)
(* metadata iteration count equals the length of the log.                  *)
C17_LogCountsVisits ==
    \A r \in Runs :
        /\ \A k \in 1..Len(execution_log[r]) :
               execution_log[r][k].iteration = k - 1
        /\ pc[r] = "done" => Meta(state[r]).iterations = Len(execution_log[r])

----------------------------------------------------------------------------
(* C18: execute works on a copy of the caller's initial state: no step of  *)
(* a run, from its start to its return, adds a key to the caller's         *)
(* mapping, removes one from it or binds one to another value.             *)
C18_InitialStateUntouched ==
    [][\A r \in Runs :
        /\ DOMAIN initial_state'[r] = DOMAIN initial_state[r]
        /\ \A k \in DOMAIN initial_state[r] :
               initial_state'[r][k] = initial_state[r][k]]_vars

\* A returned run whose state carries the metadata, a last error and a
\* tool output, none of which is a key of the caller's mapping.
C18_Witness ==
    \E r \in Runs :
        /\ pc[r] = "done"
        /\ initial_state[r] # EmptyDict
        /\ {"_meta", "_error"} \subseteq DOMAIN state[r] \ DOMAIN initial_state[r]
        /\ \E i \in 1..Len(execution_log[r]) :
              /\ execution_log[r][i].status = "success"
              /\ DOMAIN execution_log[r][i].output \subseteq
                     DOMAIN state[r] \ DOMAIN initial_state[r]

----------------------------------------------------------------------------
\* Run r is on the code-review workflow of src/setup_workflow.py.
ReviewScenario(r) == req_nodes[r] = ReviewNodes /\ req_edges[r] = ReviewEdges

(* C19: edge conditions are evaluated after the iteration count has been   *)
(* incremented for the visit, so in the code-review workflow the count is  *)
(* 4 when the guard of the improve self-loop is evaluated and the guard is *)
(* false: from every initial state the run visits extract, complexity,     *)
(* issues, improve, once each in that order, and improve is not re-run.    *)
C19_ImproveRunsOnce ==
    \A r \in Runs :
        ReviewScenario(r)
        => /\ Len(execution_log[r]) <= 4
           /\ \A i \in 1..Len(execution_log[r]) :
                  execution_log[r][i].node =
                      <<"extract", "complexity", "issues", "improve">>[i]
           /\ pc[r] # "raised"
           /\ (pc[r] = "loop" /\ Len(execution_log[r]) = 4)
              => /\ Meta(state[r]).iterations = 4
                 /\ ~EvaluateCondition(ImproveAgain, state[r])
                 /\ current_node[r] = None
           /\ pc[r] = "done" => Len(execution_log[r]) = 4

\* The workflow has returned after four successful visits with a quality
\* score below 70: only the iteration count made the guard false.
C19_Witness ==
    \E r \in Runs :
        /\ ReviewScenario(r)
        /\ pc[r] = "done"
        /\ \A i \in 1..4 : execution_log[r][i].status = "success"
        /\ IsFrac(state[r]["quality_score"])
        /\ Lt70(state[r]["quality_score"])

----------------------------------------------------------------------------
(* C20: execute on a graph with no nodes returns normally without calling  *)
(* a tool or the websocket: nothing is raised, the log is empty, nothing   *)
(* is offered to the websocket, the iteration count is 0 and the user      *)
(* fields of the state are those of the initial state.                     *)
C20_EmptyGraphReturnsAtOnce ==
    \A r \in Runs :
        (req_nodes[r] = <<>> /\ pc[r] # "idle")
        => /\ pc[r] \in {"built", "loop", "done"}
           /\ raised[r] = None
           /\ tool_func[r] = None
           /\ execution_log[r] = <<>>
           /\ sink_offered[r] = <<>>
           /\ pc[r] # "built"
              => /\ current_node[r] = None
                 /\ Meta(state[r]).iterations = 0
                 /\ UserFields(state[r]) = initial_state[r]

\* execute has returned on a graph with no nodes, called with a websocket,
\* a non-empty initial state and an edge list that is not empty.
C20_Witness ==
    \E r \in Runs :
        /\ req_nodes[r] = <<>>
        /\ req_edges[r] # <<>>
        /\ initial_state[r] # EmptyDict
        /\ websocket[r] # None
        /\ pc[r] = "done"

====
